---- MODULE Spec2Model ----
(***************************************************************************)
(* Embedding-backed semantic memory engine of plan_agent_backend:          *)
(*   app/services/embedding_service.py        MultiProviderEmbeddingService*)
(*   app/services/semantic_search_service.py  SemanticSearchService        *)
(*   app/services/enhanced_memory_service.py  EnhancedLongTermMemory       *)
(*   app/models_memory.py                     MemoryEmbedding              *)
(*                                                                         *)
(* The services are asyncio coroutines over a synchronous SQLAlchemy       *)
(* session: a coroutine can only be interleaved with another one at an     *)
(* await of a provider call (and a background task between its creation    *)
(* and its first step).  Every action below is one such uninterrupted run. *)
(***************************************************************************)
EXTENDS Integers, Sequences, FiniteSets, TLC

(***************************************************************************)
(* Bounds of the model.                                                    *)
(***************************************************************************)
MaxMemories   == 2   \* rows of user_memories
MaxEmbeddings == 2   \* rows of memory_embeddings
\* the chunk size of the batch scenario (100 for 250 memories), scaled down
ScenarioChunkSize == 1
\* get_user_profile reads the 50 newest memories and reports 5 of a type;
\* the scenarios keep the window larger than the cut
ProfileWindow == 2
RecentCap     == 1
DIMENSION     == 2   \* MultiProviderEmbeddingService.DIMENSION, scaled down

Users == {1, 2}
Slots == {1, 2}      \* coroutines (requests, background tasks) alive at a time
None  == "None"   \* memory_type=None
NoUser == 0       \* user_id=None: "if user_id:" is false

(***************************************************************************)
(* Texts are sequences of one-character strings.                           *)
(***************************************************************************)
Lower(c) == IF c = "P" THEN "p" ELSE IF c = "T" THEN "t" ELSE c

\* SQL  t ILIKE p : in the pattern "%" stands for any run of characters
\* and "_" for any one character, every other character for itself,
\* whatever its case
RECURSIVE LikeMatch(_, _)
LikeMatch(t, p) ==
    IF p = <<>> THEN t = <<>>
    ELSE IF p[1] = "%" THEN LikeMatch(t, Tail(p)) \/ (t # <<>> /\ LikeMatch(Tail(t), p))
    ELSE /\ t # <<>>
         /\ (p[1] = "_" \/ Lower(p[1]) = Lower(t[1]))
         /\ LikeMatch(Tail(t), Tail(p))

\* the filter  x ILIKE :keyword  with the parameter f"%{keyword}%"
ILike(t, kw) == LikeMatch(t, <<"%">> \o kw \o <<"%">>)

(***************************************************************************)
(* Content of a memory: a string or a dict.  A dict is a sequence of       *)
(* <<key, value>> pairs of texts, in insertion order.                      *)
(***************************************************************************)
StrContent(s)   == [isdict |-> FALSE, str |-> s, dict |-> <<>>]
DictContent(d)  == [isdict |-> TRUE, str |-> <<>>, dict |-> d]

Quote(s) == <<"\"">> \o s \o <<"\"">>

RECURSIVE DumpPairs(_)
DumpPairs(d) ==
    IF d = <<>> THEN <<>>
    ELSE Quote(d[1][1]) \o <<":", " ">> \o Quote(d[1][2])
         \o (IF Len(d) > 1 THEN <<",", " ">> ELSE <<>>) \o DumpPairs(Tail(d))

\* json.dumps(d, ensure_ascii=False) of a flat dict of strings
JsonDumps(d) == <<"{">> \o DumpPairs(d) \o <<"}">>

\* add_memory / add_memory_batch: content -> (content_json, content_text)
ContentJson(c) == IF c.isdict THEN c.dict ELSE << <<(<<"t", "e", "x", "t">>), c.str>> >>
ContentText(c) == IF c.isdict THEN JsonDumps(c.dict) ELSE c.str

(***************************************************************************)
(* Vector codec: numpy float32, little endian.  Components of the model    *)
(* are integers: float32 holds those of magnitude up to 2^24 exactly and   *)
(* rounds the larger ones to 24 significant bits, ties to even.            *)
(***************************************************************************)
Pow2(n) == 2 ^ n

RECURSIVE Log2Floor(_)
Log2Floor(n) == IF n < 2 THEN 0 ELSE 1 + Log2Floor(n \div 2)

Abs(x) == IF x < 0 THEN -x ELSE x

RoundHalfEven_Down(q, r, half) == q

\* quotient q with remainder r, rounded to nearest (half: half the divisor)
RoundHalfEven(q, r, half) ==
    IF r > half \/ (r = half /\ q % 2 = 1) THEN q + 1 ELSE q

\* IEEE-754 binary32 exponent and mantissa bits (31 bits) of |x|, |x| <= 2^30;
\* a mantissa rounded up to 2^24 carries into the exponent
F32Bits(x) ==
    LET a == Abs(x)
        e == Log2Floor(a)
    IN  IF a = 0 THEN 0
        ELSE IF e <= 23 THEN (127 + e) * Pow2(23) + (a - Pow2(e)) * Pow2(23 - e)
        ELSE (127 + e) * Pow2(23)
             + (RoundHalfEven(a \div Pow2(e - 23), a % Pow2(e - 23), Pow2(e - 24)) - Pow2(23))

\* magnitude of the 31 low bits of a binary32 pattern that encodes an integer
F32Val(r) ==
    LET ex   == r \div Pow2(23)
        man  == r % Pow2(23)
        sig  == Pow2(23) + man
    IN  IF ex = 0 THEN 0
        ELSE IF ex >= 150 THEN sig * Pow2(ex - 150)
        ELSE sig \div Pow2(150 - ex)

\* the four bytes of one component, least significant first; the sign is
\* the top bit of the last byte
LEBytes(x) ==
    LET b == F32Bits(x)
    IN  [i \in 1..4 |->
            IF i < 4 THEN (b \div Pow2(8 * (i - 1))) % 256
            ELSE (b \div Pow2(24)) + (IF x < 0 THEN 128 ELSE 0)]

RECURSIVE FlattenBytes(_)
FlattenBytes(v) ==
    IF v = <<>> THEN <<>> ELSE LEBytes(v[1]) \o FlattenBytes(Tail(v))

\* np.array(vector, dtype=np.float32).tobytes()
vector_to_bytes(v) == FlattenBytes(v)

frombuffer_raises_Never(bs) == FALSE

\* np.frombuffer raises ValueError: buffer size must be a multiple of
\* element size
frombuffer_raises(bs) == Len(bs) % 4 # 0

\* np.frombuffer(bytes_data, dtype=np.float32).tolist(), of a buffer that
\* np.frombuffer accepts
bytes_to_vector(bs) ==
    [i \in 1..(Len(bs) \div 4) |->
        LET a == F32Val(bs[4*i - 3] + 256 * bs[4*i - 2] + 65536 * bs[4*i - 1]
                        + 16777216 * (bs[4*i] % 128))
        IN  IF bs[4*i] >= 128 THEN -a ELSE a]

ZeroVector == [i \in 1..DIMENSION |-> 0]

\* a provider result np.array(vector, dtype=np.float32) raises on
BadVector == <<"null">>

Encodable(vectors) == \A j \in 1..Len(vectors) : vectors[j] # BadVector

\* components, vectors and byte strings handed to the codec: small numbers,
\* numbers around 2^24 and 2^25 where float32 starts to round, and 2^30 - 1
CodecComponents ==
    { 0, 1, -1, 3, 255, 256, -65537, 16777215, 16777216, 16777217, -16777219,
      16777218, 33554434, 33554438, 1073741823 }

\* stored blobs and blobs cut short
ByteStrings ==
    { SubSeq(vector_to_bytes(<<x, 1>>), 1, n) : x \in CodecComponents, n \in 0..8 }

(***************************************************************************)
(* Cosine similarity 1 - (a <=> b), kept exact as the pair (dot, nn)       *)
(* standing for dot / sqrt(nn); nn = 0 is the NaN that the distance        *)
(* operator yields for a zero vector.                                      *)
(***************************************************************************)
RECURSIVE Dot(_, _)
Dot(a, b) ==
    IF a = <<>> \/ b = <<>> THEN 0 ELSE a[1] * b[1] + Dot(Tail(a), Tail(b))

Similarity(a, b) == [dot |-> Dot(a, b), nn |-> Dot(a, a) * Dot(b, b)]

IsNaN(s) == s.nn = 0

SimAbove_Loose(s, T) == ~IsNaN(s) /\ s.dot > 0

\* s > T/10 for a threshold in tenths, 0 <= T <= 10 ; false for NaN
SimAbove(s, T) ==
    /\ ~IsNaN(s)
    /\ s.dot > 0
    /\ 100 * s.dot * s.dot > T * T * s.nn

\* s1 > s2 on non-NaN similarities (dot1/sqrt(nn1) > dot2/sqrt(nn2))
SimGreater(s1, s2) ==
    LET l == s1.dot * s1.dot * s2.nn
        r == s2.dot * s2.dot * s1.nn
    IN  IF s1.dot >= 0 /\ s2.dot < 0 THEN TRUE
        ELSE IF s1.dot < 0 /\ s2.dot >= 0 THEN FALSE
        ELSE IF s1.dot >= 0 THEN l > r
        ELSE l < r

\* ORDER BY distance ASC: NaN sorts after every number
RankedBefore(s1, s2) ==
    IF IsNaN(s1) THEN FALSE
    ELSE IF IsNaN(s2) THEN TRUE
    ELSE SimGreater(s1, s2)


(***************************************************************************)
(* Inputs of the model.                                                    *)
(***************************************************************************)
T_py    == <<"P", "y">>
T_go    == <<"g", "o">>
T_empty == <<>>
T_rust  == <<"R", "u", "s", "t">>
T_blank == <<" ", " ">>

Entry(u, t, c) == [user_id |-> u, memory_type |-> t, content |-> c]

\* memories handed to add_memory / add_memory_batch
E_pref  == Entry(1, "preference", StrContent(T_py))
E_dict  == Entry(2, "goal", DictContent(<< <<(<<"k">>), <<"p", "y">>>> >>))
E_empty == Entry(1, "goal", StrContent(T_empty))

Entries == { E_pref, E_dict, E_empty }

\* entry lists handed to add_memory_batch
Batches == { <<>>, <<E_empty>>, <<E_pref, E_dict>> }

\* query texts of search_memories, text lists of generate_embeddings
Queries   == { <<"p", "y">>, T_go, T_empty }
TextLists == { <<>>, <<T_py>>, <<T_py, T_rust>> }

\* texts of generate_embedding: blank is whitespace only
OneTexts == Queries \cup { T_blank }

\* text lists, batch sizes and callbacks of the streaming calls
StreamTexts == { <<>>, <<T_py, T_rust>>, <<T_py, T_rust, T_empty>> }
BatchSizes  == {1, 2}
Callbacks   == { None, "returns", "raises" }

\* keywords of search_by_keyword_and_similarity
Keywords == { <<"p", "y">>, <<"p", "_">>, T_go }

\* query vectors, limits and thresholds (in tenths) of search_similar
QueryVectors == { ZeroVector, [i \in 1..DIMENSION |-> IF i = 1 THEN 3 ELSE 1],
                  [i \in 1..DIMENSION |-> IF i = 1 THEN 1 ELSE 2] }
Limits     == {1, 2}
Thresholds == {6, 8}
TypeFilters == {None, "goal"}

\* _semantic_search: similarity_threshold=0.6, in tenths
SemanticThreshold == 6

\* ways a provider call fails (RateLimitError, APITimeoutError, APIError, Exception)
Failures == {"rate_limit", "timeout", "api_error", "unknown"}

\* "malformed": the call succeeds with embeddings numpy cannot convert
Outcomes == {"ok", "malformed"} \cup Failures

\* the call succeeds with one embedding less than it was given texts
Short == "short"

\* provider pools that _init_providers can have built
Pools == { <<>>, <<"P1">>, <<"P1", "P2">> }

\* The vector provider number p returns for a text: the provider is an
\* external model, a function of the text that differs between providers.
ProviderVec(p, t) ==
    [i \in 1..DIMENSION |-> IF i = 1 THEN (Len(t) % 5) + 1 ELSE IF i = 2 THEN p ELSE 1]

(***************************************************************************)
(* Construction of the provider pool from the settings.                    *)
(* EMBEDDING_PROVIDERS is a string; it is kept as what json.loads makes of *)
(* it: the kind of JSON value and, for a list, its items (for an object    *)
(* its keys and for a string its characters: what iterating it yields).    *)
(***************************************************************************)
Json(kind, items) == [kind |-> kind, items |-> items]

\* an item that is a JSON object with these members (None: no such member)
ConfigEntry(url, key, model, name) ==
    [isobj |-> TRUE, url |-> url, key |-> key, model |-> model, name |-> name]

\* an item that is no object (a number, a string, null): it has no .get
NotAnObject == [isobj |-> FALSE, url |-> None, key |-> None, model |-> None, name |-> None]

CE_a     == ConfigEntry("https://a", "ka", "m-a", "A")
CE_b     == ConfigEntry("https://b", "kb", None, "B")
CE_nokey == ConfigEntry("https://c", "", "m-c", "C")
CE_bare  == ConfigEntry(None, "kd", None, None)

ConfigEntries == { CE_a, CE_b, CE_nokey, CE_bare, NotAnObject }

MaxEntries == 3   \* items of the configured provider list

ConfigLists == UNION { [1..n -> ConfigEntries] : n \in 0..MaxEntries }

\* values of settings.EMBEDDING_PROVIDERS: not set (""), text that is no
\* JSON, and JSON that is null, false, true, 0, 5, "", "ab", {} or
\* {"url": ..., "key": ...} instead of a list
ProviderSettings ==
    { Json("list", l) : l \in ConfigLists }
    \cup { Json(k, <<>>) : k \in {"unset", "invalid", "null", "false", "true", "zero",
                                  "number", "string", "object"} }
    \cup { Json(k, <<NotAnObject, NotAnObject>>) : k \in {"string", "object"} }

Settings ==
    [EMBEDDING_PROVIDERS : ProviderSettings,
     EMBEDDING_API_KEY : {"", "ek"}, LLM_API_KEY : {"", "lk"},
     EMBEDDING_API_BASE_URL : {"", "https://e"}, LLM_API_BASE_URL : {"https://l"},
     EMBEDDING_MODEL : {"m-e"}]

NoSettings ==
    [EMBEDDING_PROVIDERS |-> Json("unset", <<>>), EMBEDDING_API_KEY |-> "",
     LLM_API_KEY |-> "", EMBEDDING_API_BASE_URL |-> "", LLM_API_BASE_URL |-> "https://l",
     EMBEDDING_MODEL |-> "m-e"]

\* Python truth value of a parsed JSON value
Truthy(v) ==
    CASE v.kind \in {"list", "string", "object"} -> v.items # <<>>
      [] v.kind \in {"true", "number"} -> TRUE
      [] OTHER -> FALSE

\* enumerate(v) raises TypeError on None, a bool or a number
Iterable(v) == v.kind \in {"list", "string", "object"}

\* a or b
Or(a, b) == IF a # "" THEN a ELSE b

\* config.get(member, default)
Get(member, default) == IF member = None THEN default ELSE member

\* f"provider_{i}"
ProviderName(i) == <<"provider_0", "provider_1", "provider_2", "provider_3">>[i + 1]

\* EmbeddingProvider.__init__: self.name = name or url
EmbeddingProvider(url, key, model, name) ==
    [url |-> url, key |-> key, model |-> model, name |-> Or(name, url)]

\* step 1: json.loads of a setting that is set; JSONDecodeError is caught
\* and leaves providers_config = []
LoadedConfig(st) ==
    IF st.EMBEDDING_PROVIDERS.kind \in {"unset", "invalid"} THEN Json("list", <<>>)
    ELSE st.EMBEDDING_PROVIDERS

LegacyEntry(st) ==
    ConfigEntry(Or(st.EMBEDDING_API_BASE_URL, st.LLM_API_BASE_URL),
                Or(st.EMBEDDING_API_KEY, st.LLM_API_KEY), st.EMBEDDING_MODEL, None)

UseLegacy_NoneUsable(v) ==
    ~Truthy(v) \/ \A j \in 1..Len(v.items) : ~v.items[j].isobj \/ Get(v.items[j].key, "") = ""

\* step 2: "if not providers_config"
UseLegacy(v) == ~Truthy(v)

ProvidersConfig(st) ==
    IF UseLegacy(LoadedConfig(st)) /\ Or(st.EMBEDDING_API_KEY, st.LLM_API_KEY) # ""
    THEN Json("list", <<LegacyEntry(st)>>)
    ELSE LoadedConfig(st)

Load_Front(pool, provider) == <<provider>> \o pool

\* self.providers.append(provider)
Load(pool, provider) == Append(pool, provider)

\* step 3: the loop over enumerate(providers_config), from item i on; an item
\* without .get raises inside the try and is skipped
RECURSIVE LoadProviders(_, _, _)
LoadProviders(items, i, pool) ==
    IF i > Len(items) THEN pool
    ELSE IF ~items[i].isobj THEN LoadProviders(items, i + 1, pool)
    ELSE LET c == items[i]
             provider == EmbeddingProvider(Get(c.url, ""), Get(c.key, ""),
                                           Get(c.model, "text-embedding-3-small"),
                                           Get(c.name, ProviderName(i - 1)))
         IN  LoadProviders(items, i + 1,
                           IF provider.key # "" THEN Load(pool, provider) ELSE pool)

\* enumerate(providers_config) is not inside any try
Raises(v) == ~Iterable(v)

\* MultiProviderEmbeddingService.__init__: the pool, or the exception
_init_providers(st) ==
    LET v == ProvidersConfig(st)
    IN  IF Raises(v) THEN [raised |-> TRUE, err |-> "TypeError", pool |-> <<>>]
        ELSE [raised |-> FALSE, err |-> "none", pool |-> LoadProviders(v.items, 1, <<>>)]

(***************************************************************************)
(* State.                                                                  *)
(***************************************************************************)
VARIABLES
    providers,   \* MultiProviderEmbeddingService.providers
    memories,    \* table user_memories, row id = index
    embeddings,  \* table memory_embeddings, row id = index
    coros,       \* per slot: a background task not yet started (k = 0), or a
                 \* coroutine suspended at the await of provider k's call
    ret          \* what the last finished call (or background task) returned

vars == <<providers, memories, embeddings, coros, ret>>

\* (user_id, memory_type) arguments of rebuild_embeddings
Scopes == { <<NoUser, None>>, <<1, "goal">> }

NoArgs == [user_id |-> NoUser, memory_type |-> None, query |-> <<>>, limit |-> 0,
           semantic |-> FALSE, threshold |-> 0, texts |-> <<>>, qvec |-> <<>>,
           embed |-> FALSE, repeat |-> FALSE, rel_failed |-> FALSE,
           entries |-> <<>>, batch_size |-> 0, callback |-> None,
           settings |-> NoSettings, bytes |-> <<>>]

\* bookkeeping of one generate_embeddings call: provider calls issued,
\* failures caught by the failover loop, warning lines logged
\* outcomes (history): what each provider call ended with
\* chunks (history): the text list of each generate_embeddings call made
\* events (history): <<kind, chunk index, provider>> of a streaming call, in
\*   order: "call" a provider call issued, "vec" / "bad" the vectors of the
\*   chunk produced (provider 0: the zero vectors), "cb" the callback invoked
NoStats == [calls |-> <<>>, failed |-> <<>>, warnings |-> <<>>, outcomes |-> <<>>,
            chunks |-> <<>>, events |-> <<>>]

Ret(op, args, value, raised, err, stats, reads, created) ==
    [op |-> op, args |-> args, value |-> value, raised |-> raised, err |-> err,
     stats |-> stats, reads |-> reads, created |-> created]

NoRet == Ret("none", NoArgs, <<>>, FALSE, "none", NoStats, 0, 0)

Frame(op, args, texts, via_one, rows, value) ==
    [op |-> op, args |-> args, texts |-> texts, via_one |-> via_one, k |-> 1,
     stats |-> [NoStats EXCEPT !.calls = <<1>>, !.chunks = <<texts>>],
     rows |-> rows, value |-> value, pos |-> 0, acc |-> <<>>]

Idle == [Frame("idle", NoArgs, <<>>, FALSE, <<>>, <<>>) EXCEPT !.k = 0, !.stats = NoStats]

Init ==
    /\ providers \in Pools
    /\ memories = <<>>
    /\ embeddings = <<>>
    /\ coros = [s \in Slots |-> Idle]
    /\ ret = NoRet

Min(a, b) == IF a < b THEN a ELSE b

Take_All(s, n) == s

Take(s, n) == SubSeq(s, 1, Min(n, Len(s)))


(***************************************************************************)
(* Queries.                                                                *)
(***************************************************************************)
\* user_memories.content::text, the JSONB value rendered as text
CastText(content) == JsonDumps(content)

EmbeddingIds == 1..Len(embeddings)
MemoryIds    == 1..Len(memories)

\* similarity column of search_similar:  1 - (me.embedding <=> :embedding::vector)
RowSimilarity(i, qbytes) ==
    Similarity(bytes_to_vector(embeddings[i].embedding), bytes_to_vector(qbytes))

SimilarCandidates_AnyOwner(qbytes, user_id, memory_type, T) ==
    { i \in EmbeddingIds :
        /\ embeddings[i].memory_id \in MemoryIds
        /\ (memory_type # None => embeddings[i].memory_type = memory_type)
        /\ SimAbove(RowSimilarity(i, qbytes), T) }

\* WHERE clause of search_similar (JOIN user_memories included);
\* distance < 1 - threshold  is  similarity > threshold
SimilarCandidates(qbytes, user_id, memory_type, T) ==
    { i \in EmbeddingIds :
        /\ embeddings[i].memory_id \in MemoryIds
        /\ embeddings[i].user_id = user_id
        /\ (memory_type # None => embeddings[i].memory_type = memory_type)
        /\ SimAbove(RowSimilarity(i, qbytes), T) }

\* the orders ORDER BY distance can deliver a set of rows in: rows of equal
\* distance come in any order
RankedOrders(S, qbytes) ==
    { s \in [1..Cardinality(S) -> S] :
        /\ \A i, j \in 1..Cardinality(S) : i # j => s[i] # s[j]
        /\ \A i, j \in 1..Cardinality(S) :
              i < j => ~RankedBefore(RowSimilarity(s[j], qbytes), RowSimilarity(s[i], qbytes)) }

SimilarRow(i, qbytes) ==
    [id |-> i, memory_id |-> embeddings[i].memory_id, user_id |-> embeddings[i].user_id,
     type |-> embeddings[i].memory_type,
     content |-> memories[embeddings[i].memory_id].content,
     similarity |-> RowSimilarity(i, qbytes)]

search_similar_AllMemories(qbytes, user_id, memory_type, limit, T) ==
    { Take([k \in 1..Len(memories) |->
               [id |-> 0, memory_id |-> k, user_id |-> memories[k].user_id,
                type |-> memories[k].memory_type, content |-> memories[k].content,
                similarity |-> [dot |-> 1, nn |-> 1]]], limit) }

\* the row lists search_similar can return when its query succeeds
search_similar(qbytes, user_id, memory_type, limit, T) ==
    { [k \in 1..Min(limit, Len(s)) |-> SimilarRow(s[k], qbytes)] :
        s \in RankedOrders(SimilarCandidates(qbytes, user_id, memory_type, T), qbytes) }

\* WHERE clause of search_by_keyword_and_similarity, in both of its queries
HybridCandidates(user_id, keyword, memory_type) ==
    { i \in EmbeddingIds :
        /\ embeddings[i].memory_id \in MemoryIds
        /\ embeddings[i].user_id = user_id
        /\ (memory_type # None => embeddings[i].memory_type = memory_type)
        /\ ILike(CastText(memories[embeddings[i].memory_id].content), keyword) }

\* the row lists search_by_keyword_and_similarity can return when its query
\* succeeds: ORDER BY distance, LIMIT
search_by_keyword_and_similarity(qbytes, user_id, keyword, memory_type, limit) ==
    { [k \in 1..Min(limit, Len(s)) |-> SimilarRow(s[k], qbytes)] :
        s \in RankedOrders(HybridCandidates(user_id, keyword, memory_type), qbytes) }

KeywordSimilarity == [dot |-> 1, nn |-> 1]   \* "similarity": 1.0

KeywordMatches_Embedded(user_id, keyword, memory_type) ==
    { m \in MemoryIds :
        /\ memories[m].user_id = user_id
        /\ ILike(CastText(memories[m].content), keyword)
        /\ (memory_type # None => memories[m].memory_type = memory_type)
        /\ \E i \in EmbeddingIds : embeddings[i].memory_id = m }

\* WHERE clause of _keyword_search
KeywordMatches(user_id, keyword, memory_type) ==
    { m \in MemoryIds :
        /\ memories[m].user_id = user_id
        /\ ILike(CastText(memories[m].content), keyword)
        /\ (memory_type # None => memories[m].memory_type = memory_type) }

\* members of a set of row ids, most recent (highest id) first
RECURSIVE Descending(_)
Descending(S) ==
    IF S = {} THEN <<>>
    ELSE LET m == CHOOSE x \in S : \A y \in S : y <= x
         IN  <<m>> \o Descending(S \ {m})

KeywordRow(m) ==
    [id |-> m, memory_id |-> 0, user_id |-> NoUser, type |-> memories[m].memory_type,
     content |-> memories[m].content, similarity |-> KeywordSimilarity]

_keyword_search(user_id, keyword, memory_type, limit) ==
    LET d == Take(Descending(KeywordMatches(user_id, keyword, memory_type)), limit)
    IN  [k \in 1..Len(d) |-> KeywordRow(d[k])]

\* the newest memories of a user (of a type): order_by(created_at.desc()),
\* limit; rows are created in the order of their ids
get_recent_memories(user_id, memory_type, limit) ==
    LET d == Take(Descending({ m \in MemoryIds :
                      /\ memories[m].user_id = user_id
                      /\ (memory_type # None => memories[m].memory_type = memory_type) }),
                  limit)
    IN  [k \in 1..Len(d) |->
            [id |-> d[k], type |-> memories[d[k]].memory_type,
             content |-> memories[d[k]].content]]

\* dict.update(pairs): a key the dict has keeps its place and gets the new
\* value, a new key is appended
RECURSIVE Update(_, _)
Update(d, pairs) ==
    IF pairs = <<>> THEN d
    ELSE LET key == pairs[1][1]
         IN  Update(IF \E j \in 1..Len(d) : d[j][1] = key
                    THEN [j \in 1..Len(d) |-> IF d[j][1] = key THEN pairs[1] ELSE d[j]]
                    ELSE Append(d, pairs[1]),
                    Tail(pairs))

MissingIds_Unscoped(user_id, memory_type) ==
    { m \in MemoryIds : \A i \in EmbeddingIds : embeddings[i].memory_id # m }

\* rebuild_embeddings: memories without any memory_embeddings row
MissingIds(user_id, memory_type) ==
    { m \in MemoryIds :
        /\ \A i \in EmbeddingIds : embeddings[i].memory_id # m
        /\ (user_id # NoUser => memories[m].user_id = user_id)
        /\ (memory_type # None => memories[m].memory_type = memory_type) }

RECURSIVE Ascending(_)
Ascending(S) ==
    IF S = {} THEN <<>>
    ELSE LET m == CHOOSE x \in S : \A y \in S : x <= y
         IN  <<m>> \o Ascending(S \ {m})


(***************************************************************************)
(* Embedding calls.                                                        *)
(***************************************************************************)
FreeSlots == { s \in Slots : coros[s].op = "idle" }

\* generate_embedding: "if not text";  generate_embeddings: "if not texts",
\* "if not self.providers" -- the call returns without awaiting a provider
Immediate(f) ==
    \/ f.via_one /\ f.texts[1] = <<>>
    \/ f.texts = <<>>
    \/ providers = <<>>

\* bookkeeping of a call that returned without awaiting a provider
ImmediateStats(f) ==
    [NoStats EXCEPT !.chunks = IF f.via_one /\ f.texts[1] = <<>> THEN <<>> ELSE <<f.texts>>]

ImmediateVectors_None(f) == <<>>

\* what generate_embedding(s) returns without awaiting a provider
ImmediateVectors(f) ==
    IF f.via_one /\ f.texts[1] = <<>> THEN <<ZeroVector>>
    ELSE [j \in 1..Len(f.texts) |-> ZeroVector]

\* _call_provider on success: one vector per text, in input order
_call_provider(k, texts) == [j \in 1..Len(texts) |-> ProviderVec(k, texts[j])]

\* generate_embedding: results[0] if results else [0.0] * DIMENSION
FirstOrZero(vectors) == IF vectors # <<>> THEN vectors[1] ELSE ZeroVector

AllFailed_Empty(texts) == <<>>

\* generate_embeddings, after the loop: every provider failed
AllFailed(texts) == [j \in 1..Len(texts) |-> ZeroVector]

RecordFailure_Twice(stats, k) ==
    [stats EXCEPT !.failed = @ \o <<k, k>>, !.warnings = @ \o <<k, k>>]

\* generate_embeddings, except branch: last_error = e, one warning here and
\* one in _call_provider before it re-raised
RecordFailure(stats, k) ==
    [stats EXCEPT !.failed = Append(@, k), !.warnings = @ \o <<k, k>>]

db_add_Front(table, rows) == rows \o table

\* db.add / db.add_all and db.commit: the rows are inserted, in order, after
\* the rows the table has
db_add(table, rows) == table \o rows

\* MemoryEmbedding rows built by zip(rows, vectors); by (history): the
\* operation that inserted the row
Stored(rows, vectors, by) ==
    [j \in 1..Min(Len(rows), Len(vectors)) |->
        [memory_id |-> rows[j].memory_id, user_id |-> rows[j].user_id,
         memory_type |-> rows[j].memory_type,
         embedding |-> vector_to_bytes(vectors[j]), by |-> by]]

Propagates_Always(op, failed) == failed

\* Whether a failure of the embedding half reaches the caller:
\* _create_embedding and _create_embeddings_batch catch Exception,
\* _rebuild_embeddings_async does not.
Propagates(op, failed) == op = "rebuild" /\ failed

\* The code that runs after generate_embeddings has returned `vectors` to
\* the coroutine f.  ok: whether the storage statement that follows (the
\* vector insert and commit, or the similarity query) succeeds.
Finish(f, vectors, ok, rest) ==
    /\ coros' = rest
    /\ CASE f.op = "gen" ->
              /\ ret' = Ret("gen", f.args, vectors, FALSE, "none", f.stats, 0, 0)
              /\ UNCHANGED embeddings
         [] f.op = "one" ->
              /\ ret' = Ret("one", f.args, FirstOrZero(vectors), FALSE, "none", f.stats, 0, 0)
              /\ UNCHANGED embeddings
         [] f.op \in {"add", "batch", "rebuild"} ->
              LET vs  == IF f.via_one THEN <<FirstOrZero(vectors)>> ELSE vectors
                  err == IF ~Encodable(vs) THEN "encode"
                         ELSE IF ~ok THEN "vector_store" ELSE "none"
                  new == IF err = "none" THEN Stored(f.rows, vs, f.op) ELSE <<>>
              IN  /\ embeddings' = db_add(embeddings, new)
                  /\ ret' = Ret(IF f.op = "rebuild" THEN "rebuild_task" ELSE f.op, f.args,
                                f.value, Propagates(f.op, err # "none"), err, f.stats, 0,
                                Len(embeddings') - Len(embeddings))
         [] f.op = "smem" ->
              IF ~Encodable(<<FirstOrZero(vectors)>>)
              THEN \* _semantic_search, except branch: the keyword scan
                   /\ ret' = Ret("smem", f.args,
                                 _keyword_search(f.args.user_id, f.args.query,
                                                 f.args.memory_type, f.args.limit),
                                 FALSE, "encode", f.stats, 0, 0)
                   /\ UNCHANGED embeddings
              ELSE \* search_similar catches its own exception and returns []
                   /\ \E rows \in (IF ok
                                   THEN search_similar(vector_to_bytes(FirstOrZero(vectors)),
                                                       f.args.user_id, f.args.memory_type,
                                                       f.args.limit, SemanticThreshold)
                                   ELSE {<<>>}) :
                         ret' = Ret("smem", f.args, rows, FALSE,
                                    IF ok THEN "none" ELSE "query", f.stats, 1, 0)
                   /\ UNCHANGED embeddings

\* Coroutine f of slot s enters generate_embedding(s): it returns at once
\* or suspends at the first provider call.
Enter(f, ok, s) ==
    IF Immediate(f)
    THEN Finish([f EXCEPT !.stats = ImmediateStats(f)], ImmediateVectors(f), ok,
                [coros EXCEPT ![s] = Idle])
    ELSE /\ coros' = [coros EXCEPT ![s] = f]
         /\ ret' = NoRet   \* nothing has returned since this call began
         /\ UNCHANGED embeddings

\* A new call: it needs a slot only if it gets suspended.
Begin(f, ok) ==
    IF Immediate(f)
    THEN Finish([f EXCEPT !.stats = ImmediateStats(f)], ImmediateVectors(f), ok, coros)
    ELSE /\ FreeSlots # {}
         /\ Enter(f, ok, CHOOSE s \in FreeSlots : \A t \in FreeSlots : s <= t)

(***************************************************************************)
(* generate_embeddings_streaming / generate_embeddings_async: one          *)
(* generate_embeddings call per chunk of batch_size texts.                 *)
(***************************************************************************)
StreamOps == {"stream", "astream"}

\* total_batches = (len(texts) + batch_size - 1) // batch_size
NumChunks(n, size) == (n + size - 1) \div size

Chunk_FromStart(texts, size, idx) == SubSeq(texts, 1, Min(size, Len(texts)))

\* texts[start_idx:end_idx] of chunk number idx (from 0)
Chunk(texts, size, idx) ==
    SubSeq(texts, idx * size + 1, Min((idx + 1) * size, Len(texts)))

StreamDone(f) == f.pos >= NumChunks(Len(f.args.texts), f.args.batch_size)

AfterChunk_Abort(g, vectors, p) ==
    [g EXCEPT !.acc = @ \o vectors, !.k = 0,
              !.pos = IF g.args.callback = "raises"
                      THEN NumChunks(Len(g.args.texts), g.args.batch_size) ELSE @ + 1,
              !.stats.events = @ \o << <<"vec", g.pos, p>>, <<"cb", g.pos, 0>> >>]

\* generate_embeddings has returned `vectors` (from provider p, 0: zeros) for
\* the current chunk: all_results.extend, then the callback, awaited inside
\* try / except Exception
AfterChunk(g, vectors, p) ==
    LET ev == Append(g.stats.events,
                     <<IF Encodable(vectors) THEN "vec" ELSE "bad", g.pos, p>>)
    IN  [g EXCEPT !.acc = @ \o vectors, !.pos = @ + 1, !.k = 0,
                  !.stats.events = IF g.args.callback # None
                                   THEN Append(ev, <<"cb", g.pos, 0>>) ELSE ev]

StartOfPool_AfterFailed(g) ==
    IF g.stats.failed = <<>> THEN 1 ELSE g.stats.failed[Len(g.stats.failed)]

\* every generate_embeddings call runs "for i, provider in
\* enumerate(self.providers)" from the start; the service keeps no record of
\* the providers that failed (g: the streaming call at its next chunk)
StartOfPool(g) == 1

\* The loop over the chunks, run until it is over or a provider call is
\* awaited (with an empty pool generate_embeddings returns at once).
RECURSIVE Advance(_)
Advance(f) ==
    IF StreamDone(f) THEN f
    ELSE LET c == Chunk(f.args.texts, f.args.batch_size, f.pos)
             g == [f EXCEPT !.texts = c, !.stats.chunks = Append(@, c)]
         IN  IF providers = <<>>
             THEN Advance(AfterChunk(g, ImmediateVectors(g), 0))
             ELSE [g EXCEPT !.k = StartOfPool(g), !.stats.calls = Append(@, StartOfPool(g)),
                            !.stats.events = Append(@, <<"call", g.pos, StartOfPool(g)>>)]

\* the streaming coroutine of slot s gets the vectors of its current chunk
StreamContinue(s, f, vectors, p) ==
    LET h == Advance(AfterChunk(f, vectors, p))
    IN  /\ UNCHANGED embeddings
        /\ IF StreamDone(h)
           THEN /\ coros' = [coros EXCEPT ![s] = Idle]
                /\ ret' = Ret(f.op, f.args, h.acc, FALSE, "none", h.stats, 0, 0)
           ELSE /\ coros' = [coros EXCEPT ![s] = h]
                /\ UNCHANGED ret

\* generate_embeddings returns `vectors` (from provider p) to its caller
Return(s, f, vectors, p, ok, rest) ==
    IF f.op \in StreamOps THEN StreamContinue(s, f, vectors, p)
    ELSE Finish(f, vectors, ok, rest)

\* asyncio.CancelledError thrown into the awaited provider call
Cancelled == "cancelled"

Caught_Any(outcome) == TRUE

\* "except Exception" (and the clauses before it) of _call_provider and of
\* generate_embeddings: CancelledError is a BaseException and passes through
Caught(outcome) == outcome \in Failures

\* The exception leaves generate_embeddings and every caller up to the task:
\* none of them catches BaseException.
Abandon(f, rest) ==
    /\ coros' = rest
    /\ ret' = Ret(IF f.op = "rebuild" THEN "rebuild_task" ELSE f.op, f.args, f.value,
                  TRUE, Cancelled, f.stats, 0, 0)
    /\ UNCHANGED embeddings

NextProvider_Same(k) == k

\* for i, provider in enumerate(self.providers)
NextProvider(k) == k + 1

\* The awaited provider call of slot s ends with `outcome`; the coroutine
\* runs on to its next await or to its end.
ProviderRespond(s, outcome, ok) ==
    LET \* single=True: response.data[0] of an empty response raises IndexError
        \* inside the try of _call_provider
        empty == outcome = Short /\ Len(coros[s].texts) = 1
        f   == [coros[s] EXCEPT !.stats.outcomes =
                    Append(@, IF outcome \in Failures \/ empty THEN "fail" ELSE outcome)]
        rest == [coros EXCEPT ![s] = Idle]
    IN  /\ coros[s].k >= 1
        /\ UNCHANGED <<providers, memories>>
        /\ IF outcome = "ok"
           THEN Return(s, f, _call_provider(f.k, f.texts), f.k, ok, rest)
           ELSE IF outcome = "malformed"
           THEN Return(s, f, [j \in 1..Len(f.texts) |-> BadVector], f.k, ok, rest)
           ELSE IF outcome = Short /\ ~empty
           THEN Return(s, f, Take(_call_provider(f.k, f.texts), Len(f.texts) - 1), f.k, ok, rest)
           ELSE IF Caught(outcome) \/ empty
           THEN \* _call_provider logs a warning and re-raises; the loop of
                \* generate_embeddings records the error, logs and continues
                LET st == RecordFailure(f.stats, f.k)
                    n  == NextProvider(f.k)
                IN  IF f.k < Len(providers)
                    THEN /\ coros' = [coros EXCEPT ![s] =
                                [f EXCEPT !.k = n,
                                          !.stats = [st EXCEPT
                                              !.calls = Append(@, n),
                                              !.events = IF f.op \in StreamOps
                                                         THEN Append(@, <<"call", f.pos, n>>)
                                                         ELSE @]]]
                         /\ UNCHANGED <<embeddings, ret>>
                    ELSE Return(s, [f EXCEPT !.stats = st], AllFailed(f.texts), 0, ok, rest)
           ELSE Abandon(f, rest)

(***************************************************************************)
(* EnhancedLongTermMemory                                                  *)
(***************************************************************************)
MemoryRow(e) ==
    [user_id |-> e.user_id, memory_type |-> e.memory_type, content |-> ContentJson(e.content)]

EmbRow_First(id, e) == [memory_id |-> 1, user_id |-> e.user_id, memory_type |-> e.memory_type]

EmbRow_Anonymous(id, e) == [memory_id |-> id, user_id |-> NoUser, memory_type |-> e.memory_type]

\* memory_id, user_id, memory_type of the MemoryEmbedding built for an entry
EmbRow(id, e) == [memory_id |-> id, user_id |-> e.user_id, memory_type |-> e.memory_type]

CommitRaises_Swallowed(relOk) == FALSE

\* db.commit() of the user_memories rows is not inside any try: its
\* exception leaves add_memory / add_memory_batch at once
CommitRaises(relOk) == ~relOk

add_memory(e, embed, relOk, vecOk) ==
    LET args == [NoArgs EXCEPT !.embed = embed, !.rel_failed = ~relOk]
        id   == Len(memories) + 1
    IN  /\ UNCHANGED providers
        /\ IF CommitRaises(relOk)
           THEN \* db.commit() raises: nothing is persisted, the error propagates
                /\ ret' = Ret("add", args, <<>>, TRUE, "relational", NoStats, 0, 0)
                /\ UNCHANGED <<memories, embeddings, coros>>
           ELSE /\ memories' = db_add(memories, <<MemoryRow(e)>>)
                /\ IF ~embed
                   THEN /\ ret' = Ret("add", [args EXCEPT !.entries = <<e>>], id, FALSE,
                                      "none", NoStats, 0, 0)
                        /\ UNCHANGED <<embeddings, coros>>
                   ELSE Begin(Frame("add", [args EXCEPT !.entries = <<e>>],
                                    <<ContentText(e.content)>>, TRUE,
                                    <<EmbRow(id, e)>>, id), vecOk)

add_memory_batch(es, embed, relOk, vecOk) ==
    LET args == [NoArgs EXCEPT !.embed = embed, !.rel_failed = ~relOk]
        ids  == [j \in 1..Len(es) |-> Len(memories) + j]
    IN  /\ UNCHANGED providers
        /\ IF CommitRaises(relOk)
           THEN /\ ret' = Ret("batch", args, <<>>, TRUE, "relational", NoStats, 0, 0)
                /\ UNCHANGED <<memories, embeddings, coros>>
           ELSE /\ memories' = db_add(memories, [j \in 1..Len(es) |-> MemoryRow(es[j])])
                /\ IF ~embed
                   THEN /\ ret' = Ret("batch", [args EXCEPT !.entries = es], ids, FALSE,
                                      "none", NoStats, 0, 0)
                        /\ UNCHANGED <<embeddings, coros>>
                   ELSE Begin(Frame("batch", [args EXCEPT !.entries = es],
                                    [j \in 1..Len(es) |-> ContentText(es[j].content)], FALSE,
                                    [j \in 1..Len(es) |-> EmbRow(ids[j], es[j])], ids), vecOk)

search_memories(user_id, query, memory_type, use_semantic, limit, ok) ==
    LET args == [NoArgs EXCEPT !.user_id = user_id, !.query = query,
                               !.memory_type = memory_type, !.semantic = use_semantic,
                               !.limit = limit]
    IN  /\ UNCHANGED <<providers, memories>>
        /\ IF ~use_semantic
           THEN /\ ret' = Ret("smem", args, _keyword_search(user_id, query, memory_type, limit),
                              FALSE, "none", NoStats, 0, 0)
                /\ UNCHANGED <<embeddings, coros>>
           ELSE Begin(Frame("smem", args, <<query>>, TRUE, <<>>, <<>>), ok)

\* The stored content is the dict add_memory built, so every preference is
\* merged with update(); the loop runs from the newest memory to the oldest.
get_user_profile(user_id) ==
    LET memory_rows == get_recent_memories(user_id, None, ProfileWindow)
        RECURSIVE Preferences(_, _)
        Preferences(d, rows) ==
            IF rows = <<>> THEN d
            ELSE Preferences(IF rows[1].type = "preference" THEN Update(d, rows[1].content)
                             ELSE d, Tail(rows))
        Contents(t) ==
            LET rows == SelectSeq(memory_rows, LAMBDA r : r.type = t)
            IN  [j \in 1..Len(rows) |-> rows[j].content]
    IN  /\ ret' = Ret("profile", [NoArgs EXCEPT !.user_id = user_id],
                      [preferences |-> Preferences(<<>>, memory_rows),
                       recent_goals |-> Take(Contents("goal"), RecentCap),
                       recent_reflections |-> Take(Contents("reflection"), RecentCap),
                       total_memories |-> Len(memory_rows)],
                      FALSE, "none", NoStats, 0, 0)
        /\ UNCHANGED <<providers, memories, embeddings, coros>>

\* The synchronous part: the anti-join, asyncio.create_task, the count.
\* repeat (history): the call directly follows a rebuild_embeddings call
\* with the same arguments.
rebuild_embeddings(user_id, memory_type) ==
    LET ids  == Ascending(MissingIds(user_id, memory_type))
        args == [NoArgs EXCEPT !.user_id = user_id, !.memory_type = memory_type]
        s    == CHOOSE x \in FreeSlots : \A t \in FreeSlots : x <= t
    IN  /\ FreeSlots # {}
        /\ coros' = [coros EXCEPT ![s] =
              [Frame("rebuild", [NoArgs EXCEPT !.repeat = (ret.op = "rebuild" /\ ret.args = args)],
                     <<>>, FALSE, <<>>, ids) EXCEPT !.k = 0, !.stats = NoStats]]
        /\ ret' = Ret("rebuild", args, Len(ids), FALSE, "none", NoStats, 0, 0)
        /\ UNCHANGED <<providers, memories, embeddings>>

\* First step of the background task: load the rows, build the texts (the
\* stored content is always a dict) and enter generate_embeddings.
_rebuild_embeddings_async(s, ok) ==
    LET t   == coros[s]
        ids == t.value
    IN  /\ t.op = "rebuild" /\ t.k = 0
        /\ UNCHANGED <<providers, memories>>
        /\ Enter(Frame("rebuild", t.args,
                       [j \in 1..Len(ids) |-> JsonDumps(memories[ids[j]].content)], FALSE,
                       [j \in 1..Len(ids) |-> EmbRow(ids[j], memories[ids[j]])], ids), ok, s)

(***************************************************************************)
(* Direct calls of the embedding service and of the search index.          *)
(***************************************************************************)
generate_embeddings(texts) ==
    /\ Begin(Frame("gen", [NoArgs EXCEPT !.texts = texts], texts, FALSE, <<>>, <<>>), TRUE)
    /\ UNCHANGED <<providers, memories>>

generate_embedding(text) ==
    /\ Begin(Frame("one", [NoArgs EXCEPT !.texts = <<text>>], <<text>>, TRUE, <<>>, <<>>), TRUE)
    /\ UNCHANGED <<providers, memories>>

\* Both streaming calls run the same loop; only generate_embeddings_async
\* takes a callback.
StreamBegin(op, texts, batch_size, callback) ==
    LET args == [NoArgs EXCEPT !.texts = texts, !.batch_size = batch_size,
                               !.callback = callback]
        h    == Advance([Frame(op, args, <<>>, FALSE, <<>>, <<>>)
                            EXCEPT !.k = 0, !.stats = NoStats])
    IN  /\ UNCHANGED <<providers, memories, embeddings>>
        /\ IF StreamDone(h)
           THEN /\ ret' = Ret(op, args, h.acc, FALSE, "none", h.stats, 0, 0)
                /\ UNCHANGED coros
           ELSE /\ FreeSlots # {}
                /\ coros' = [coros EXCEPT
                       ![CHOOSE s \in FreeSlots : \A t \in FreeSlots : s <= t] = h]
                /\ ret' = NoRet

generate_embeddings_streaming(texts, batch_size) ==
    StreamBegin("stream", texts, batch_size, None)

generate_embeddings_async(texts, batch_size, callback) ==
    StreamBegin("astream", texts, batch_size, callback)

Search(qvec, user_id, memory_type, limit, T, ok) ==
    /\ \E rows \in (IF ok THEN search_similar(vector_to_bytes(qvec), user_id, memory_type, limit, T)
                    ELSE {<<>>}) :
          ret' = Ret("search", [NoArgs EXCEPT !.qvec = qvec, !.user_id = user_id,
                                              !.memory_type = memory_type, !.limit = limit,
                                              !.threshold = T],
                     rows, FALSE, IF ok THEN "none" ELSE "query", NoStats, 1, 0)
    /\ UNCHANGED <<providers, memories, embeddings, coros>>

\* a direct call of the hybrid search; on any exception it returns []
SearchHybrid(qvec, user_id, keyword, memory_type, limit, ok) ==
    /\ \E rows \in (IF ok
                    THEN search_by_keyword_and_similarity(vector_to_bytes(qvec), user_id,
                                                          keyword, memory_type, limit)
                    ELSE {<<>>}) :
          ret' = Ret("hybrid", [NoArgs EXCEPT !.qvec = qvec, !.user_id = user_id,
                                              !.query = keyword,
                                              !.memory_type = memory_type, !.limit = limit],
                     rows, FALSE, IF ok THEN "none" ELSE "query", NoStats, 1, 0)
    /\ UNCHANGED <<providers, memories, embeddings, coros>>

\* a call of vector_to_bytes
Encode(v) ==
    /\ ret' = Ret("encode", [NoArgs EXCEPT !.qvec = v], vector_to_bytes(v), FALSE, "none",
                  NoStats, 0, 0)
    /\ UNCHANGED <<providers, memories, embeddings, coros>>

\* a call of bytes_to_vector; args.qvec (history): the vector whose encoding
\* is decoded, if the bytes come from the Encode call before
Decode(bs) ==
    /\ ret' = IF frombuffer_raises(bs)
              THEN Ret("decode", [ret.args EXCEPT !.bytes = bs], <<>>, TRUE, "ValueError",
                       NoStats, 0, 0)
              ELSE Ret("decode", [ret.args EXCEPT !.bytes = bs], bytes_to_vector(bs), FALSE,
                       "none", NoStats, 0, 0)
    /\ UNCHANGED <<providers, memories, embeddings, coros>>

\* The service object is built once, when the module is imported, from the
\* settings of the process: providers holds the names of the pool.
Construct(st) ==
    LET r == _init_providers(st)
    IN  /\ ret = NoRet
        /\ providers' = [j \in 1..Len(r.pool) |-> r.pool[j].name]
        /\ ret' = Ret("init", [NoArgs EXCEPT !.settings = st], r.pool, r.raised, r.err,
                      NoStats, 0, 0)
        /\ UNCHANGED <<memories, embeddings, coros>>

(***************************************************************************)
(* Specifications.                                                         *)
(***************************************************************************)
InitPool == Init /\ providers = <<>>

\* the codec: a vector is encoded and the bytes decoded again, or some
\* stored bytes are decoded
NextCodec ==
    \/ \E v \in [1..DIMENSION -> CodecComponents] : ret = NoRet /\ Encode(v)
    \/ ret.op = "encode" /\ Decode(ret.value)
    \/ \E bs \in ByteStrings : ret = NoRet /\ Decode(bs)

SpecCodec == InitPool /\ [][NextCodec]_vars

\* the process is started with some settings
NextPool == \E st \in Settings : Construct(st)

SpecPool == InitPool /\ [][NextPool]_vars

\* the tables stay within the bounds of the model
Bounded ==
    /\ Len(memories') <= MaxMemories
    /\ Len(embeddings') <= MaxEmbeddings

\* the memory store: writers and repair
NextStore ==
    \/ \E e \in Entries, embed, relOk, vecOk \in BOOLEAN :
          add_memory(e, embed, relOk, vecOk) /\ Bounded
    \/ \E es \in Batches, embed, relOk, vecOk \in BOOLEAN :
          add_memory_batch(es, embed, relOk, vecOk) /\ Bounded
    \/ \E sc \in Scopes : rebuild_embeddings(sc[1], sc[2])
    \/ \E s \in Slots, ok \in BOOLEAN : _rebuild_embeddings_async(s, ok) /\ Bounded
    \/ \E s \in Slots, o \in Outcomes, ok \in BOOLEAN : ProviderRespond(s, o, ok) /\ Bounded

InitStore == Init /\ providers \in {<<>>, <<"P1">>}

SpecStore == InitStore /\ [][NextStore]_vars

\* no coroutine is suspended and no task is waiting to start
Quiet == FreeSlots = Slots

\* what a provider answers within its contract: one vector per input, or a
\* failure
Answers == {"ok"} \cup Failures

\* The repair job with a vector store that accepts the writes of the rebuild
\* tasks and providers that answer them within their contract; the embedding
\* step of add_memory may fail in every way.  add_memory is called by one
\* caller at a time, rebuild_embeddings at any time.  No memory gets more
\* than one record per coroutine alive, so memory_embeddings stays bounded
\* by itself.
RepairRespond(s, o, ok) ==
    /\ coros[s].op = "rebuild" => (ok /\ o \in Answers)
    /\ ProviderRespond(s, o, ok)

NextRepair ==
    \/ \E e \in {E_pref, E_dict}, embed, vecOk \in BOOLEAN :
          Quiet /\ add_memory(e, embed, TRUE, vecOk) /\ Len(memories') <= MaxMemories
    \/ \E sc \in Scopes : rebuild_embeddings(sc[1], sc[2])
    \/ \E s \in Slots : _rebuild_embeddings_async(s, TRUE)
    \/ \E s \in Slots, o \in Outcomes, ok \in BOOLEAN : RepairRespond(s, o, ok)

\* The event loop runs each task that is ready (its ready queue is first in,
\* first out), and each provider call ends: the client gives up on a call
\* that gets no answer.
SpecRepair ==
    /\ InitStore
    /\ [][NextRepair]_vars
    /\ \A s \in Slots : WF_vars(_rebuild_embeddings_async(s, TRUE))
    /\ \A s \in Slots :
          WF_vars(\E o \in Answers : coros[s].op = "rebuild" /\ RepairRespond(s, o, TRUE))

\* the embedding service alone
NextEmbed ==
    \/ \E ts \in TextLists : generate_embeddings(ts)
    \/ \E t \in OneTexts : generate_embedding(t)
    \/ \E s \in Slots, o \in Outcomes \cup {Cancelled} : ProviderRespond(s, o, TRUE)

SpecEmbed == Init /\ [][NextEmbed]_vars

\* The streaming calls, one at a time: the embedding service keeps no state
\* between calls, so calls that overlap do not affect each other.
NextStream ==
    \/ \E ts \in StreamTexts, n \in BatchSizes :
          Quiet /\ generate_embeddings_streaming(ts, n)
    \/ \E ts \in StreamTexts, n \in BatchSizes, cb \in Callbacks :
          Quiet /\ generate_embeddings_async(ts, n, cb)
    \/ \E s \in Slots, o \in Outcomes \cup {Cancelled} : ProviderRespond(s, o, TRUE)

SpecStream == Init /\ [][NextStream]_vars

\* searches over a store filled by one caller at a time

\* A search result depends on the tables only, never on `ret`: searching
\* from the states whose `ret` is not itself a search result reaches every
\* state that searching from all states reaches.
Fresh == Quiet /\ ret.op \notin {"search", "smem"}

NextSearch ==
    \/ \E e \in Entries, embed, relOk, vecOk \in BOOLEAN :
          Quiet /\ add_memory(e, embed, relOk, vecOk) /\ Bounded
    \/ \E es \in Batches, embed, relOk, vecOk \in BOOLEAN :
          Quiet /\ add_memory_batch(es, embed, relOk, vecOk) /\ Bounded
    \/ \E sc \in Scopes : Quiet /\ rebuild_embeddings(sc[1], sc[2])
    \/ \E s \in Slots, ok \in BOOLEAN : _rebuild_embeddings_async(s, ok) /\ Bounded
    \/ \E s \in Slots, o \in Outcomes, ok \in BOOLEAN : ProviderRespond(s, o, ok) /\ Bounded
    \/ \E u \in Users, q \in Queries, t \in TypeFilters, sem, ok \in BOOLEAN, l \in Limits :
          Fresh /\ search_memories(u, q, t, sem, l, ok)
    \/ \E q \in QueryVectors, u \in Users, t \in TypeFilters, l \in Limits,
          T \in Thresholds, ok \in BOOLEAN : Fresh /\ Search(q, u, t, l, T, ok)

SpecSearch == InitStore /\ [][NextSearch]_vars

\* The memory store as its callers see it: memories of one user's goals,
\* preferences and reflections and of another user, written one call at a
\* time, repaired in the background, searched and summed up in a profile.
\* A search or a profile follows a call that is none (see Fresh).
NextFacade ==
    \/ \E e \in {E_pref, E_dict, Entry(1, "goal", StrContent(T_go)),
                  Entry(1, "reflection", StrContent(T_rust)),
                  Entry(1, "preference", StrContent(T_rust))}, embed, relOk, vecOk \in BOOLEAN :
          /\ Quiet /\ add_memory(e, embed, relOk, vecOk)
          /\ Len(memories') <= ProfileWindow + 1 /\ Len(embeddings') <= MaxEmbeddings
    \/ \E es \in {<<E_pref, E_dict>>}, embed, relOk, vecOk \in BOOLEAN :
          /\ Quiet /\ add_memory_batch(es, embed, relOk, vecOk)
          /\ Len(memories') <= ProfileWindow + 1 /\ Len(embeddings') <= MaxEmbeddings
    \/ Quiet /\ rebuild_embeddings(NoUser, None)
    \/ \E s \in Slots, ok \in BOOLEAN :
          _rebuild_embeddings_async(s, ok) /\ Len(embeddings') <= MaxEmbeddings
    \/ \E s \in Slots, o \in Answers \cup {Short}, ok \in BOOLEAN :
          ProviderRespond(s, o, ok) /\ Len(embeddings') <= MaxEmbeddings
    \/ \E u \in {1}, q \in {T_go}, sem, ok \in BOOLEAN :
          Fresh /\ ret.op # "profile" /\ search_memories(u, q, None, sem, 2, ok)
    \/ \E u \in Users : Fresh /\ ret.op # "profile" /\ get_user_profile(u)

SpecFacade == InitStore /\ [][NextFacade]_vars

\* hybrid searches over a store filled by one caller at a time
NextHybrid ==
    \/ \E e \in Entries, embed, relOk, vecOk \in BOOLEAN :
          Quiet /\ add_memory(e, embed, relOk, vecOk) /\ Bounded
    \/ \E es \in Batches, embed, relOk, vecOk \in BOOLEAN :
          Quiet /\ add_memory_batch(es, embed, relOk, vecOk) /\ Bounded
    \/ \E s \in Slots, o \in Outcomes, ok \in BOOLEAN : ProviderRespond(s, o, ok) /\ Bounded
    \/ \E q \in QueryVectors, u \in Users, kw \in Keywords, t \in TypeFilters, l \in Limits,
          ok \in BOOLEAN : ret.op # "hybrid" /\ Quiet /\ SearchHybrid(q, u, kw, t, l, ok)

SpecHybrid == InitStore /\ [][NextHybrid]_vars


(***************************************************************************)
(* Properties.                                                             *)
(***************************************************************************)
EmbeddingsOf(m) == { i \in EmbeddingIds : embeddings[i].memory_id = m }

NoRebuildAlive == \A s \in Slots : coros[s].op # "rebuild"

\* C1: in every reachable state each MemoryRecord has at most one
\* EmbeddingRecord, whatever the interleaving of add_memory,
\* add_memory_batch and the rebuild tasks.
C1_AtMostOneEmbedding ==
    \A m \in MemoryIds : Cardinality(EmbeddingsOf(m)) <= 1

RebuildWritten(m) == { i \in EmbeddingsOf(m) : embeddings[i].by = "rebuild" }

\* C5: a rebuild_embeddings call that directly follows another one with the
\* same arguments (no memory added in between) produces no additional
\* EmbeddingRecord: once both tasks have ended, the task of the second call
\* has inserted nothing, or else no memory of its scope holds more than one
\* record written by a rebuild task (the first task had inserted none).
C5_SecondRebuildAddsNothing ==
    (ret.op = "rebuild_task" /\ ret.args.repeat /\ NoRebuildAlive) =>
        \/ ret.created = 0
        \/ \A j \in 1..Len(ret.value) : Cardinality(RebuildWritten(ret.value[j])) <= 1

\* C6 as claimed: after add_memory (embed=true) whose vector-store write
\* failed has returned, the memory has no EmbeddingRecord.
C6_LeftWithoutEmbedding ==
    (ret.op = "add" /\ ret.err = "vector_store") =>
        /\ ~ret.raised
        /\ ret.value \in MemoryIds
        /\ EmbeddingsOf(ret.value) = {}

\* C6 amended: when the vector-store write of add_memory (embed=true)
\* fails, add_memory returns the new memory id without raising, the
\* MemoryRecord is persisted and the call has inserted no EmbeddingRecord:
\* the memory has none, except one written by a rebuild task that ran
\* while add_memory was suspended at its provider call.
C6_FailedWriteAddsNothing ==
    (ret.op = "add" /\ ret.err = "vector_store") =>
        /\ ~ret.raised
        /\ ret.args.embed
        /\ ret.value \in MemoryIds
        /\ ret.created = 0
        /\ \A i \in EmbeddingsOf(ret.value) : embeddings[i].by = "rebuild"

C6_Witness ==
    /\ ret.op = "add" /\ ret.err = "vector_store"
    /\ ret.stats.outcomes = <<"ok">>
    /\ EmbeddingsOf(ret.value) = {}

\* C7: when the relational insert of add_memory or add_memory_batch fails,
\* the error is raised to the caller, no provider is called (the call has
\* issued no provider call and no coroutine of such a call is ever suspended
\* at a provider) and the call has created no EmbeddingRecord.
C7_RelationalFailureRaises ==
    /\ (ret.op \in {"add", "batch"} /\ ret.args.rel_failed) =>
          /\ ret.raised
          /\ ret.stats.calls = <<>>
          /\ ret.stats.outcomes = <<>>
          /\ ret.created = 0
    /\ \A s \in Slots : ~coros[s].args.rel_failed

C7_Witness ==
    /\ ret.op \in {"add", "batch"} /\ ret.args.rel_failed /\ ret.raised
    /\ ret.args.embed
    /\ providers # <<>>
    /\ memories # <<>>

IsZeroVector(v) == Len(v) = DIMENSION /\ \A i \in 1..DIMENSION : v[i] = 0

\* the pool was empty, or every provider of the pool was called and failed
PoolExhausted ==
    \/ providers = <<>>
    \/ /\ Len(ret.stats.outcomes) = Len(providers)
       /\ \A j \in 1..Len(providers) : ret.stats.outcomes[j] = "fail"

\* C3: when every provider fails or the pool is empty, generate_embeddings
\* returns, without raising, one vector per input text, each of DIMENSION
\* zeros; generate_embedding on a non-empty text then returns one vector of
\* DIMENSION zeros.
C3_ExhaustedPoolGivesZeros ==
    /\ (ret.op = "gen" /\ PoolExhausted) =>
          /\ ~ret.raised
          /\ Len(ret.value) = Len(ret.args.texts)
          /\ \A j \in 1..Len(ret.value) : IsZeroVector(ret.value[j])
    /\ (ret.op = "one" /\ ret.args.texts[1] # <<>> /\ PoolExhausted) =>
          /\ ~ret.raised
          /\ IsZeroVector(ret.value)

C3_Witness ==
    /\ ret.op = "gen"
    /\ providers = <<"P1", "P2">>
    /\ ret.stats.outcomes = <<"fail", "fail">>
    /\ Len(ret.value) = 2

Owner(i) == memories[embeddings[i].memory_id].user_id

\* C2: search_similar for an owner returns only EmbeddingRecords whose
\* MemoryRecord belongs to that owner, whatever the stored state and the
\* query vector, also when another owner's vector is the most similar.
C2_OwnerIsolation ==
    (ret.op = "search") =>
        \A k \in 1..Len(ret.value) :
            /\ ret.value[k].id \in EmbeddingIds
            /\ ret.value[k].memory_id = embeddings[ret.value[k].id].memory_id
            /\ memories[ret.value[k].memory_id].user_id = ret.args.user_id

\* a search that returned a record although a record of another owner is
\* more similar to the query than every record of the searching owner
C2_Witness ==
    /\ ret.op = "search"
    /\ ret.value # <<>>
    /\ \E j \in EmbeddingIds :
          /\ Owner(j) # ret.args.user_id
          /\ \A i \in EmbeddingIds :
                Owner(i) = ret.args.user_id =>
                    SimGreater(RowSimilarity(j, vector_to_bytes(ret.args.qvec)),
                               RowSimilarity(i, vector_to_bytes(ret.args.qvec)))

KeywordScan == _keyword_search(ret.args.user_id, ret.args.query,
                               ret.args.memory_type, ret.args.limit)

\* C8: search_memories(use_semantic=true) returns the result of the keyword
\* scan for the same owner, query, type and limit whenever an error occurred
\* in the semantic path (encoding the query vector, or the storage query of
\* search_similar).
C8_AnyErrorFallsBack ==
    (ret.op = "smem" /\ ret.args.semantic /\ ret.err # "none") => ret.value = KeywordScan

\* the owner's memories that match the query all lack an EmbeddingRecord
MatchesUnembedded ==
    LET M == KeywordMatches(ret.args.user_id, ret.args.query, ret.args.memory_type)
    IN  M # {} /\ \A m \in M : EmbeddingsOf(m) = {}

\* C9: search_memories(use_semantic=true) returns the keyword scan when the
\* pool was exhausted while embedding the query, and when the owner's
\* matching memories have no EmbeddingRecord.
C9_FallsBackWithoutVectors ==
    (ret.op = "smem" /\ ret.args.semantic /\ ret.err = "none"
        /\ ret.args.query # <<>> /\ (PoolExhausted \/ MatchesUnembedded))
    => ret.value = KeywordScan

\* C10: search_memories(use_semantic=false) calls no provider and does not
\* read memory_embeddings; it returns, each with similarity 1.0, distinct
\* memories of the owner (of the requested type) whose content contains the
\* query, as many as the limit allows -- whether or not they have an
\* EmbeddingRecord.
C10_KeywordPath ==
    (ret.op = "smem" /\ ~ret.args.semantic) =>
        LET M == { m \in MemoryIds :
                     /\ memories[m].user_id = ret.args.user_id
                     /\ (ret.args.memory_type # None =>
                            memories[m].memory_type = ret.args.memory_type)
                     /\ ILike(JsonDumps(memories[m].content), ret.args.query) }
        IN  /\ ~ret.raised
            /\ ret.stats.calls = <<>>
            /\ ret.reads = 0
            /\ Len(ret.value) = Min(ret.args.limit, Cardinality(M))
            /\ \A k \in 1..Len(ret.value) :
                  /\ ret.value[k].id \in M
                  /\ ret.value[k].similarity = [dot |-> 1, nn |-> 1]
                  /\ ret.value[k].content = memories[ret.value[k].id].content
            /\ \A k, l \in 1..Len(ret.value) : k # l => ret.value[k].id # ret.value[l].id

C10_Witness ==
    /\ ret.op = "smem" /\ ~ret.args.semantic
    /\ providers # <<>>
    /\ ret.args.query # <<>>
    /\ \E k \in 1..Len(ret.value) : EmbeddingsOf(ret.value[k].id) = {}
    /\ \E m \in MemoryIds : EmbeddingsOf(m) # {}

IsBlank(t) == \A i \in 1..Len(t) : t[i] = " "

\* C14: generate_embedding on an empty or whitespace-only text returns a
\* vector of DIMENSION zeros and calls no provider.
C14_BlankShortCircuits ==
    (ret.op = "one" /\ IsBlank(ret.args.texts[1])) =>
        /\ ~ret.raised
        /\ IsZeroVector(ret.value)
        /\ ret.stats.calls = <<>>

\* the events of the last finished streaming call
Events == ret.stats.events

\* the vector that event e (the vectors of a chunk produced) gives text t
EventVector(e, t) ==
    IF e[1] = "bad" THEN BadVector
    ELSE IF e[3] = 0 THEN ZeroVector ELSE ProviderVec(e[3], t)

\* C15: a streaming call with batch_size >= 1 makes exactly
\* ceil(len(texts) / batch_size) generate_embeddings calls, the c-th one over
\* the c-th run of batch_size consecutive texts (the last run possibly
\* shorter), and returns one vector per text, result[i] being the vector
\* that the generate_embeddings call of text i's chunk produced for texts[i].
C15_ChunksInOrder ==
    (ret.op \in StreamOps /\ ~ret.raised) =>
        LET texts == ret.args.texts
            size  == ret.args.batch_size
            n     == Len(ret.stats.chunks)
        IN  /\ n * size >= Len(texts)
            /\ (n > 0 => (n - 1) * size < Len(texts))
            /\ \A c \in 1..n :
                  ret.stats.chunks[c] =
                      [j \in 1..(IF c < n THEN size ELSE Len(texts) - (n - 1) * size)
                          |-> texts[(c - 1) * size + j]]
            /\ Len(ret.value) = Len(texts)
            /\ \A i \in 1..Len(texts) :
                  \E x \in 1..Len(Events) :
                      /\ Events[x][1] \in {"vec", "bad"}
                      /\ Events[x][2] = (i - 1) \div size
                      /\ ret.value[i] = EventVector(Events[x], texts[i])

C15_Witness ==
    /\ ret.op = "stream"
    /\ Len(ret.args.texts) = 3 /\ ret.args.batch_size = 2
    /\ ret.stats.outcomes = <<"ok", "ok">>
    /\ Len(ret.stats.chunks) = 2
    /\ ret.value[3] = ProviderVec(1, T_empty)

\* C16: generate_embeddings_async with a callback invokes it exactly once
\* per chunk, in increasing chunk index, directly after the vectors of that
\* chunk are produced and before any provider call of the next chunk; also
\* when the callback raises, every chunk is processed and the result holds
\* one vector per text.
C16_CallbackPerChunk ==
    (ret.op = "astream" /\ ret.args.callback # None /\ ~ret.raised) =>
        /\ \A c \in 0..(Len(ret.stats.chunks) - 1) :
              /\ Cardinality({ x \in 1..Len(Events) :
                                  Events[x][1] = "cb" /\ Events[x][2] = c }) = 1
              /\ \A x \in 1..Len(Events) :
                    (Events[x][1] = "cb" /\ Events[x][2] = c) =>
                        /\ x > 1
                        /\ Events[x - 1][1] \in {"vec", "bad"}
                        /\ Events[x - 1][2] = c
                        /\ \A y \in 1..Len(Events) :
                              (Events[y][1] = "call" /\ Events[y][2] > c) => y > x
        /\ \A x, y \in 1..Len(Events) :
              (x < y /\ Events[x][1] = "cb" /\ Events[y][1] = "cb") =>
                  Events[x][2] < Events[y][2]
        /\ \A x \in 1..Len(Events) :
              Events[x][1] = "cb" => Events[x][2] < Len(ret.stats.chunks)
        /\ Len(ret.value) = Len(ret.args.texts)

C16_Witness ==
    /\ ret.op = "astream"
    /\ ret.args.callback = "raises"
    /\ Len(ret.stats.chunks) = 3
    /\ providers # <<>>
    /\ Len(ret.value) = 3

\* calls in pool order, each provider at most once, every call but the last
\* one ended in failure; pending: the last call has not ended yet
InPoolOrder(st, pending) ==
    /\ Len(st.calls) <= Len(providers)
    /\ \A j \in 1..Len(st.calls) : st.calls[j] = j
    /\ Len(st.outcomes) = Len(st.calls) - (IF pending THEN 1 ELSE 0)
    /\ \A j \in 1..(Len(st.calls) - 1) : st.outcomes[j] = "fail"

\* C19: within one generate_embeddings call the providers are called in pool
\* order, one at a time: provider k+1 only after the call of provider k has
\* ended in failure, each provider at most once, none after a success.
C19_SequentialFailover ==
    /\ InPoolOrder(ret.stats, FALSE)
    /\ \A s \in Slots :
          coros[s].k >= 1 =>
              /\ InPoolOrder(coros[s].stats, TRUE)
              /\ coros[s].k = Len(coros[s].stats.calls)

C19_Witness ==
    /\ providers = <<"P1", "P2">>
    /\ ret.op = "gen" /\ ret.stats.outcomes = <<"ok">>
    /\ \E s \in Slots : coros[s].k = 2 /\ coros[s].stats.outcomes = <<"fail">>

\* C20: a generate_embeddings call cancelled while a provider call is in
\* flight ends as cancelled: the cancellation is the last thing that happens
\* in it, no further provider is called, and it returns no vectors.
C20_CancellationAborts ==
    /\ (\E j \in 1..Len(ret.stats.outcomes) : ret.stats.outcomes[j] = Cancelled) =>
          /\ ret.raised
          /\ ret.err = Cancelled
          /\ ret.stats.outcomes[Len(ret.stats.outcomes)] = Cancelled
          /\ Len(ret.stats.calls) = Len(ret.stats.outcomes)
          /\ ret.value = <<>>
    /\ \A s \in Slots : \A j \in 1..Len(coros[s].stats.outcomes) :
          coros[s].stats.outcomes[j] # Cancelled

C20_Witness ==
    /\ providers = <<"P1", "P2">>
    /\ ret.op = "gen"
    /\ ret.err = Cancelled
    /\ ret.stats.calls = <<1>>
    /\ Len(ret.args.texts) = 2

\* s >= T/10 for a threshold in tenths, 0 < T <= 10 ; false for NaN
SimAtLeast(s, T) ==
    /\ s.nn # 0
    /\ s.dot > 0
    /\ 100 * s.dot * s.dot >= T * T * s.nn

\* the query vector of the last search_similar call, as stored bytes
QBytes == vector_to_bytes(ret.args.qvec)

\* C11: search_similar with threshold t returns no row whose similarity is
\* below t, and on the same tables and query a search with a higher
\* threshold never returns more rows (both storage queries succeeding).
C11_ThresholdFilters ==
    (ret.op = "search" /\ ret.err = "none") =>
        /\ \A k \in 1..Len(ret.value) :
              SimAtLeast(ret.value[k].similarity, ret.args.threshold)
        /\ \A T \in Thresholds :
              T >= ret.args.threshold =>
                  \A rows \in search_similar(QBytes, ret.args.user_id, ret.args.memory_type,
                                             ret.args.limit, T) :
                      Len(rows) <= Len(ret.value)

\* a search that returned rows of which a higher threshold drops some
C11_Witness ==
    /\ ret.op = "search" /\ ret.err = "none"
    /\ ret.args.threshold = 6
    /\ ret.value # <<>>
    /\ \E rows \in search_similar(QBytes, ret.args.user_id, ret.args.memory_type,
                                  ret.args.limit, 8) :
          Len(rows) < Len(ret.value)

\* EmbeddingRecords in the owner / type scope of the last search
InScope ==
    { i \in EmbeddingIds :
        /\ Owner(i) = ret.args.user_id
        /\ (ret.args.memory_type # None =>
               memories[embeddings[i].memory_id].memory_type = ret.args.memory_type) }

\* C12: search_similar retains every candidate of the scope whose similarity
\* is greater than or equal to the threshold, as far as the limit allows; a
\* candidate whose similarity equals the threshold is retained.
C12_EqualityRetained ==
    (ret.op = "search" /\ ret.err = "none") =>
        LET Q == { i \in InScope : SimAtLeast(RowSimilarity(i, QBytes), ret.args.threshold) }
        IN  /\ Len(ret.value) = Min(ret.args.limit, Cardinality(Q))
            /\ Cardinality(Q) <= ret.args.limit =>
                  \A i \in Q : \E k \in 1..Len(ret.value) : ret.value[k].id = i

SameSimilarity(s1, s2) == ~SimGreater(s1, s2) /\ ~SimGreater(s2, s1)

\* row i comes before row j: more similar, or as similar and created later
Precedes(i, j) ==
    \/ SimGreater(RowSimilarity(i, QBytes), RowSimilarity(j, QBytes))
    \/ /\ SameSimilarity(RowSimilarity(i, QBytes), RowSimilarity(j, QBytes))
       /\ i > j

\* C13: search_similar returns at most `limit` rows, the best of the
\* qualifying candidates, by similarity descending and, among rows of equal
\* similarity, the most recently created first.
C13_TopOrdered ==
    (ret.op = "search" /\ ret.err = "none") =>
        LET Q   == SimilarCandidates(QBytes, ret.args.user_id, ret.args.memory_type,
                                     ret.args.threshold)
            Got == { ret.value[k].id : k \in 1..Len(ret.value) }
        IN  /\ Len(ret.value) = Min(ret.args.limit, Cardinality(Q))
            /\ Got \subseteq Q
            /\ \A k, l \in 1..Len(ret.value) :
                  k < l => Precedes(ret.value[k].id, ret.value[l].id)
            /\ \A i \in Got : \A j \in Q \ Got : Precedes(i, j)

\* the entries of a batch are committed, at the ids given, in input order
Committed(ids, es) ==
    /\ Len(ids) = Len(es)
    /\ \A j \in 1..Len(ids) :
          /\ ids[j] \in MemoryIds
          /\ memories[ids[j]] = MemoryRow(es[j])
          /\ \A l \in 1..Len(ids) : j < l => ids[j] < ids[l]

\* one generate_embeddings call, over the content texts of all entries
OneCallOverAll(st, es) ==
    st.chunks = << [j \in 1..Len(es) |-> ContentText(es[j].content)] >>

BatchWritten(m) == { i \in EmbeddingsOf(m) : embeddings[i].by = "batch" }

\* C17: add_memory_batch commits all MemoryRecords before its single
\* generate_embeddings call over all contents, and inserts the vectors after
\* it; it returns the ids of all entries in input order with every memory
\* retained, and when every provider failed (or the pool is empty) and the
\* vector insert succeeds, each memory gets an EmbeddingRecord of zeros.
C17_BatchOrderAndFallback ==
    /\ \A s \in Slots :
          (coros[s].op = "batch" /\ coros[s].k >= 1) =>
              /\ Committed(coros[s].value, coros[s].args.entries)
              /\ OneCallOverAll(coros[s].stats, coros[s].args.entries)
              /\ \A j \in 1..Len(coros[s].value) : BatchWritten(coros[s].value[j]) = {}
    /\ (ret.op = "batch" /\ ~ret.args.rel_failed) =>
          /\ ~ret.raised
          /\ Committed(ret.value, ret.args.entries)
          /\ ret.args.embed => OneCallOverAll(ret.stats, ret.args.entries)
          /\ (ret.args.embed /\ PoolExhausted /\ ret.err = "none") =>
                \A j \in 1..Len(ret.value) :
                    \E i \in BatchWritten(ret.value[j]) :
                        embeddings[i].embedding = vector_to_bytes(ZeroVector)

C17_Witness ==
    /\ ret.op = "batch" /\ ret.args.embed /\ ret.err = "none"
    /\ providers = <<"P1">>
    /\ ret.stats.outcomes = <<"fail">>
    /\ Len(ret.value) = 2
    /\ \A j \in 1..2 : BatchWritten(ret.value[j]) # {}

\* C18: the embedding call of add_memory_batch sends the contents to the
\* provider in chunks of the chunk size (n entries: ceil(n / size) chunks,
\* none longer than the size) and the batch produces n EmbeddingRecords, the
\* j-th one referencing the j-th returned id and holding the vector of the
\* j-th content.
C18_BatchIsChunked ==
    (ret.op = "batch" /\ ret.args.embed /\ ret.err = "none"
        /\ ret.stats.outcomes = <<"ok">>) =>
        LET n == Len(ret.args.entries)
        IN  /\ Len(ret.stats.chunks) * ScenarioChunkSize >= n
            /\ \A c \in 1..Len(ret.stats.chunks) :
                  Len(ret.stats.chunks[c]) <= ScenarioChunkSize
            /\ Len(ret.stats.calls) = Len(ret.stats.chunks)
            /\ ret.created = n
            /\ \A j \in 1..n :
                  \E i \in BatchWritten(ret.value[j]) :
                      embeddings[i].embedding =
                          vector_to_bytes(ProviderVec(1, ContentText(ret.args.entries[j].content)))

\* MemoryRecords without EmbeddingRecord of an owner and a type (NoUser,
\* None: not given)
Created(user_id, memory_type) ==
    { m \in MemoryIds :
        /\ EmbeddingsOf(m) = {}
        /\ user_id \in Users => memories[m].user_id = user_id
        /\ memory_type # None => memories[m].memory_type = memory_type }

Embedded(m) == m \in MemoryIds /\ EmbeddingsOf(m) # {}

\* the EmbeddingRecords that the step adds for memory m
NewRecordsOf(m) ==
    { i \in (Len(embeddings) + 1)..Len(embeddings') : embeddings'[i].memory_id = m }

\* an unscoped rebuild_embeddings call has just returned and memory m has no
\* EmbeddingRecord
QueuedUnscoped(m) ==
    /\ ret.op = "rebuild"
    /\ ret.args.user_id = NoUser /\ ret.args.memory_type = None
    /\ m \in MemoryIds
    /\ EmbeddingsOf(m) = {}

Configured == ret.args.settings.EMBEDDING_PROVIDERS

LegacyKey == Or(ret.args.settings.EMBEDDING_API_KEY, ret.args.settings.LLM_API_KEY)

\* the entries the configuration gives: the items of a non-empty list, or
\* the legacy configuration if it has a credential
ConfiguredEntries ==
    IF Configured.items # <<>> THEN Configured.items
    ELSE IF LegacyKey # "" THEN <<LegacyEntry(ret.args.settings)>> ELSE <<>>

HasCredential(c) == c.isobj /\ c.key \notin {"", None}

\* positions of the configured entries that have a credential, in order
Credentialed == Ascending({ j \in 1..Len(ConfiguredEntries) : HasCredential(ConfiguredEntries[j]) })

\* C23: after construction the pool is exactly the subsequence of the
\* configured entries (the items of the configured list, or else the legacy
\* configuration) that have a non-empty credential, in configuration order.
C23_PoolIsCredentialedSubsequence ==
    (ret.op = "init" /\ Configured.kind \in {"list", "unset", "invalid"}) =>
        /\ ~ret.raised
        /\ Len(ret.value) = Len(Credentialed)
        /\ Len(providers) = Len(Credentialed)
        /\ \A j \in 1..Len(Credentialed) :
              LET c == ConfiguredEntries[Credentialed[j]]
              IN  /\ ret.value[j].key = c.key
                  /\ ret.value[j].url = Get(c.url, "")
                  /\ c.name # None => ret.value[j].name = c.name
                  /\ providers[j] = ret.value[j].name

\* two entries with a credential around one without, kept in their order
C23_Witness ==
    /\ ret.op = "init"
    /\ Configured = Json("list", <<CE_b, CE_nokey, CE_a>>)
    /\ providers = <<"B", "A">>

\* the pool built from the legacy configuration alone
LegacyPool ==
    << [url   |-> Or(ret.args.settings.EMBEDDING_API_BASE_URL,
                     ret.args.settings.LLM_API_BASE_URL),
        key   |-> LegacyKey,
        model |-> ret.args.settings.EMBEDDING_MODEL,
        name  |-> "provider_0"] >>

\* nothing is configured: the setting is not set or is no JSON, or the
\* value is null, false, 0 or empty
AbsentOrEmpty ==
    \/ Configured.kind \in {"unset", "invalid", "null", "false", "zero"}
    \/ Configured.kind \in {"list", "string", "object"} /\ Configured.items = <<>>

\* C24: the pool is built from the legacy {url, key, model} configuration
\* exactly when the configured provider list is absent or empty and a
\* legacy credential exists; a non-empty list is never replaced by the
\* legacy configuration, also when none of its entries is usable.
C24_LegacyOnlyWithoutList ==
    (ret.op = "init" /\ ~ret.raised) =>
        /\ (ret.value = LegacyPool) <=> (AbsentOrEmpty /\ LegacyKey # "")
        /\ (Configured.kind = "list" /\ Configured.items # <<>>) =>
              \A j \in 1..Len(ret.value) :
                  \E l \in 1..Len(Configured.items) :
                      /\ Configured.items[l].isobj
                      /\ ret.value[j].key = Configured.items[l].key

\* a list whose entries are all dropped, with a legacy credential at hand
C24_Witness ==
    /\ ret.op = "init"
    /\ Configured = Json("list", <<CE_nokey, NotAnObject>>)
    /\ LegacyKey = "lk"
    /\ ret.value = <<>>
    /\ providers = <<>>

\* C25: the construction of the pool raises for no value of the settings;
\* it always yields a pool, possibly empty.
C25_ConstructionNeverFails ==
    (ret.op = "init") => ~ret.raised

\* text t contains kw as a substring, whatever the case
Contains(t, kw) ==
    \E i \in 0..(Len(t) - Len(kw)) :
        \A j \in 1..Len(kw) : Lower(t[i + j]) = Lower(kw[j])

\* C26: search_by_keyword_and_similarity returns only EmbeddingRecords of
\* the given owner (and type, when given) whose MemoryRecord content
\* contains the keyword, whatever the case, by similarity descending, and as
\* many of them as the limit allows whatever their similarity.
C26_HybridKeywordFilter ==
    (ret.op = "hybrid" /\ ret.err = "none") =>
        LET Q == { i \in InScope :
                     Contains(CastText(memories[embeddings[i].memory_id].content),
                              ret.args.query) }
        IN  /\ \A k \in 1..Len(ret.value) : ret.value[k].id \in Q
            /\ \A k, l \in 1..Len(ret.value) :
                  k < l => ~RankedBefore(ret.value[l].similarity, ret.value[k].similarity)
            /\ Len(ret.value) = Min(ret.args.limit, Cardinality(Q))

\* the multiple of u nearest to a >= 0, of two equally near ones the even one
Nearest(a, u) ==
    LET lo == (a \div u) * u
    IN  IF 2 * (a - lo) < u THEN lo
        ELSE IF 2 * (a - lo) > u THEN lo + u
        ELSE IF (lo \div u) % 2 = 0 THEN lo ELSE lo + u

\* the integer x at float32 precision: 24 significant bits
Float32(x) ==
    LET a == Abs(x)
        u == IF a < Pow2(24) THEN 1 ELSE Pow2(Log2Floor(a) - 23)
    IN  IF x < 0 THEN -Nearest(a, u) ELSE Nearest(a, u)

\* C27: for every vector v of DIMENSION components vector_to_bytes(v) has
\* exactly 4 bytes per component, and bytes_to_vector of these bytes is v at
\* float32 precision.
C27_RoundTrip ==
    /\ (ret.op = "encode") => Len(ret.value) = 4 * Len(ret.args.qvec)
    /\ (ret.op = "decode" /\ ret.args.qvec # <<>>) =>
          /\ ~ret.raised
          /\ ret.value = [i \in 1..Len(ret.args.qvec) |-> Float32(ret.args.qvec[i])]

\* a round trip of components that float32 rounds, one of them down to even
\* and one up with a carry into the exponent
C27_Witness ==
    /\ ret.op = "decode"
    /\ ret.args.qvec = <<16777217, 1073741823>>
    /\ ret.value = <<16777216, 1073741824>>

\* C28: bytes_to_vector of a byte string whose length is no multiple of 4
\* fails with an error and returns no vector.
C28_OddLengthFails ==
    (ret.op = "decode" /\ Len(ret.args.bytes) % 4 # 0) =>
        /\ ret.raised
        /\ ret.err = "ValueError"
        /\ ret.value = <<>>

C28_Witness ==
    /\ ret.op = "decode"
    /\ Len(ret.args.bytes) = 7
    /\ ret.raised

\* the newest RecentCap contents among all memories of a user and a type
RecentOf(user_id, memory_type) ==
    LET d == Descending({ m \in MemoryIds : /\ memories[m].user_id = user_id
                                            /\ memories[m].memory_type = memory_type })
    IN  [k \in 1..Min(RecentCap, Len(d)) |-> memories[d[k]].content]

ReadStep ==
    \/ ret'.op \in {"smem", "profile"} /\ ret.op \notin {"smem", "profile"}
    \/ \E s \in Slots : coros[s].op # coros'[s].op /\ "smem" \in {coros[s].op, coros'[s].op}

\* C30: every step of add_memory, add_memory_batch, search_memories,
\* get_user_profile, rebuild_embeddings and its task leaves the rows that
\* user_memories and memory_embeddings have as they are; a step of a search
\* or of a profile changes neither table.
C30_RecordsAreKept ==
    [][ /\ Len(memories') >= Len(memories)
        /\ SubSeq(memories', 1, Len(memories)) = memories
        /\ Len(embeddings') >= Len(embeddings)
        /\ SubSeq(embeddings', 1, Len(embeddings)) = embeddings
        /\ ReadStep => UNCHANGED <<memories, embeddings>> ]_vars

\* every kind of writer has written to a store that a profile then read
C30_Witness ==
    /\ ret.op = "profile"
    /\ Len(memories) = ProfileWindow + 1
    /\ \E i, j \in EmbeddingIds : embeddings[i].by = "rebuild" /\ embeddings[j].by # "rebuild"

\* the memory was added with string content: add_memory stored {"text": s}
AddedAsString(m) ==
    /\ Len(memories[m].content) = 1
    /\ memories[m].content[1][1] = <<"t", "e", "x", "t">>

\* C31: for a memory added with string content, the text the task of
\* rebuild_embeddings hands to generate_embeddings is the text add_memory
\* handed to generate_embedding for it, the string itself.
C31_RepairSendsAddText ==
    (ret.op = "rebuild_task") =>
        \A j \in 1..Len(ret.value) :
            AddedAsString(ret.value[j]) =>
                ret.stats.chunks[1][j] = memories[ret.value[j]].content[1][2]

\* C32: in every reachable state each row of memory_embeddings refers to a
\* row of user_memories and carries that row's user_id and memory_type,
\* whether add_memory, add_memory_batch or the rebuild task wrote it.
C32_DenormalizedScope ==
    \A i \in EmbeddingIds :
        /\ embeddings[i].memory_id \in MemoryIds
        /\ embeddings[i].user_id = memories[embeddings[i].memory_id].user_id
        /\ embeddings[i].memory_type = memories[embeddings[i].memory_id].memory_type

\* rows of two users and two types, one written by the rebuild task and one
\* by add_memory_batch
C32_Witness ==
    \E i, j \in EmbeddingIds :
        /\ embeddings[i].by = "rebuild" /\ embeddings[j].by = "batch"
        /\ embeddings[i].user_id # embeddings[j].user_id
        /\ embeddings[i].memory_type # embeddings[j].memory_type

\* C33: when add_memory_batch with embedding enabled has returned, it has
\* created no row of memory_embeddings or one for every entry, whatever
\* number of vectors the provider returned.
C33_BatchAllOrNothing ==
    (ret.op = "batch" /\ ret.args.embed /\ ~ret.raised) =>
        ret.created \in {0, Len(ret.args.entries)}

\* memories with an all-zero row of memory_embeddings
ZeroEmbedded ==
    { m \in MemoryIds :
        \E i \in EmbeddingIds : /\ embeddings[i].memory_id = m
                                /\ embeddings[i].embedding = vector_to_bytes(ZeroVector) }

\* C34: once a memory has an all-zero row of memory_embeddings, no step of
\* add_memory, add_memory_batch, rebuild_embeddings or a rebuild task changes
\* a row of that memory or adds a row with a vector that is not all zero
\* for it.
C34_ZeroRecordStays ==
    [][ \A m \in ZeroEmbedded :
          /\ Len(embeddings') >= Len(embeddings)
          /\ \A i \in 1..Len(embeddings') :
                embeddings'[i].memory_id = m =>
                    IF i <= Len(embeddings) THEN embeddings'[i] = embeddings[i]
                    ELSE embeddings'[i].embedding = vector_to_bytes(ZeroVector)
      ]_vars

\* C35: in a streaming call every chunk runs the failover from the first
\* provider, whatever failed for the chunks before: its calls go to
\* providers 1, 2, ... in pool order; the chunk gets zero vectors only when
\* every provider of the pool failed for it, and otherwise the vectors of
\* the provider called last; the result holds, at the positions of each
\* chunk, the vectors of that chunk.
C35_FailoverPerChunk ==
    (ret.op \in StreamOps /\ ~ret.raised /\ providers # <<>>) =>
        \A c \in 0..(Len(ret.stats.chunks) - 1) :
            LET calls == SelectSeq(Events, LAMBDA e : e[1] = "call" /\ e[2] = c)
                made  == SelectSeq(Events, LAMBDA e : e[1] \in {"vec", "bad"} /\ e[2] = c)
                size  == ret.args.batch_size
            IN  /\ calls # <<>>
                /\ \A j \in 1..Len(calls) : calls[j][3] = j
                /\ Len(made) = 1
                /\ made[1][3] = 0 => Len(calls) = Len(providers)
                /\ made[1][3] # 0 => made[1][3] = Len(calls)
                /\ \A j \in 1..Len(ret.stats.chunks[c + 1]) :
                      ret.value[c * size + j] =
                          EventVector(made[1], ret.stats.chunks[c + 1][j])

\* every provider failed for the first chunk, and the first provider was
\* called again for the second chunk and answered it
C35_Witness ==
    /\ ret.op = "stream" /\ ~ret.raised
    /\ Len(providers) = 2
    /\ ret.args.batch_size = 1 /\ Len(ret.args.texts) = 2
    /\ ret.stats.outcomes = <<"fail", "fail", "ok">>
    /\ ret.value = <<ZeroVector, ProviderVec(1, ret.args.texts[2])>>

\* C36: the rows that search_memories gets from search_similar are rows of
\* memories that have a row in memory_embeddings; the keyword scan returns
\* the matching memories of the owner, as far as the limit allows, with or
\* without one.
C36_SemanticNeedsEmbedding ==
    /\ (ret.op = "smem" /\ ret.args.semantic /\ ret.err # "encode") =>
          \A k \in 1..Len(ret.value) :
              /\ ret.value[k].memory_id \in MemoryIds
              /\ EmbeddingsOf(ret.value[k].memory_id) # {}
    /\ (ret.op = "smem" /\ ~ret.args.semantic) =>
          \A m \in MemoryIds :
              ( /\ memories[m].user_id = ret.args.user_id
                /\ ret.args.memory_type \in {None, memories[m].memory_type}
                /\ ILike(CastText(memories[m].content), ret.args.query)
                /\ Len(ret.value) < ret.args.limit )
              => \E k \in 1..Len(ret.value) : ret.value[k].id = m

\* a semantic search returned the embedded memory of the owner and left out
\* the owner's other memory, which has no row in memory_embeddings
C36_Witness ==
    /\ ret.op = "smem" /\ ret.args.semantic /\ ret.err = "none"
    /\ ret.args.memory_type = None
    /\ ret.value # <<>>
    /\ \E m \in MemoryIds : /\ memories[m].user_id = ret.args.user_id
                            /\ EmbeddingsOf(m) = {}

\* C37: on every path (search_similar, the keyword scan after an error, the
\* keyword scan asked for) search_memories returns only memories of the
\* user it was called for and at most `limit` of them; the keyword scan
\* returns them most recent first.
C37_OwnerLimitOrder ==
    (ret.op = "smem") =>
        LET scan == ~ret.args.semantic \/ ret.err = "encode"
        IN  /\ Len(ret.value) <= ret.args.limit
            /\ \A k \in 1..Len(ret.value) :
                  LET m == IF scan THEN ret.value[k].id ELSE ret.value[k].memory_id
                  IN  m \in MemoryIds /\ memories[m].user_id = ret.args.user_id
            /\ scan => \A k, l \in 1..Len(ret.value) :
                          k < l => ret.value[k].id > ret.value[l].id

\* the keyword scan after an error, with a matching memory of another user
\* in the store
C37_Witness ==
    /\ ret.op = "smem" /\ ret.args.semantic /\ ret.err = "encode"
    /\ ret.value # <<>>
    /\ \E m \in MemoryIds : /\ memories[m].user_id # ret.args.user_id
                            /\ ILike(CastText(memories[m].content), ret.args.query)

\* the preference memories among the ProfileWindow newest memories of the
\* user of the last profile
AggregatedPreferences ==
    { m \in MemoryIds :
        /\ memories[m].user_id = ret.args.user_id
        /\ memories[m].memory_type = "preference"
        /\ Cardinality({ n \in MemoryIds : n > m /\ memories[n].user_id = ret.args.user_id })
              < ProfileWindow }

\* C38: in the preferences get_user_profile returns, a key that several of
\* the aggregated preference memories define has the value of the most
\* recent of them, and every string preference added through add_memory is
\* to be found in them.
C38_RecentPreferenceWins ==
    (ret.op = "profile") =>
        LET merged == ret.value.preferences
        IN  /\ \A m \in AggregatedPreferences : \A j \in 1..Len(memories[m].content) :
                  (\A n \in AggregatedPreferences :
                      n > m => \A i \in 1..Len(memories[n].content) :
                                  memories[n].content[i][1] # memories[m].content[j][1])
                  => \E x \in 1..Len(merged) : merged[x] = memories[m].content[j]
            /\ \A m \in AggregatedPreferences :
                  AddedAsString(m) =>
                      \E x \in 1..Len(merged) : memories[m].content[1][2] \in {merged[x][1], merged[x][2]}

====
